---- MODULE Spec2Model ----
\* Faceted retrieval (backend/app_elasticsearch.py, search_elasticsearch) and
\* the grounded-answer helpers of backend/ai.py, as a state machine.
\*
\* Text is modelled at the level of lexemes: a string is a sequence of
\* lexemes, where a lexeme is a word ("bone"), a blank (" "), a colon (":")
\* or the simple_query_string OR sign ("|").  Python's split/strip/join are
\* computed on these sequences.  The index analyses a text into the set of
\* its words; a clause matches a document field when they share a word.
EXTENDS Integers, Sequences, FiniteSets, TLC

\* ---------------------------------------------------------------- bounds
MaxQueryLen == 3      \* lexemes in a free-text query (query-builder runs)
MaxVals == 2          \* values selected in the organism facet (builder runs)
MaxPapers == 7        \* papers handed to _format_sources
MaxOffset == 5        \* the non-zero offset of the cascade runs
MaxSize == 18         \* the largest page size of the cascade runs
MaxCandidates == 2    \* candidates in a generation response
MaxMessages == 4      \* Message rows stored in the chat runs
YearSpan == 6         \* years on either side of the decay origin (scoring runs)
MaxArchive == 26      \* archived papers behind the pool (deep-index runs)
MaxPosts == 2         \* concurrent posts to one AI thread
MaxCallers == 2       \* concurrent callers of ai_rag_es.answer_with_rag
MaxIndexed == 11      \* papers matching the context search

\* ------------------------------------------------------- program constants
MinHits == 5          \* max(5, size // 3)
FallbackMin == 30     \* max(30, size)
GaussOrigin == 2025
GaussScale == 5
TopK == 6             \* search_fn(query, 6)
SnippetLen == 800     \* abstract[:800]
MaxChars == 5500      \* max_chars default

None == "None"
\* a text that is absent (None where a string is expected)
Absent == <<None>>

Max(a, b) == IF a >= b THEN a ELSE b
Min(a, b) == IF a <= b THEN a ELSE b

\* ------------------------------------------------------------ text helpers
Blank == " "
Colon == ":"
Bar == "|"

\* str.split(): maximal runs of non-blank lexemes
RECURSIVE SplitFrom(_, _, _)
SplitFrom(s, i, cur) ==
    IF i > Len(s) THEN (IF cur = <<>> THEN <<>> ELSE <<cur>>)
    ELSE IF s[i] = Blank
         THEN (IF cur = <<>> THEN <<>> ELSE <<cur>>) \o SplitFrom(s, i + 1, <<>>)
         ELSE SplitFrom(s, i + 1, Append(cur, s[i]))
Split(s) == SplitFrom(s, 1, <<>>)

\* str.strip() of a lexeme sequence
RECURSIVE LStrip(_)
LStrip(s) == IF s # <<>> /\ Head(s) = Blank THEN LStrip(Tail(s)) ELSE s
RECURSIVE RStrip(_)
RStrip(s) == IF s # <<>> /\ s[Len(s)] = Blank THEN RStrip(SubSeq(s, 1, Len(s) - 1)) ELSE s
Strip(s) == RStrip(LStrip(s))

\* sep.join(parts)
RECURSIVE Join(_, _)
Join(sep, parts) ==
    IF parts = <<>> THEN <<>>
    ELSE IF Len(parts) = 1 THEN parts[1]
    ELSE parts[1] \o sep \o Join(sep, Tail(parts))

HasColon(term) == \E i \in DOMAIN term : term[i] = Colon

\* term.split(":", 1)[1]: what follows the first colon
AfterColon(term) ==
    LET i == CHOOSE j \in DOMAIN term :
                 term[j] = Colon /\ \A k \in 1..(j - 1) : term[k] # Colon
    IN SubSeq(term, i + 1, Len(term))

\* the words the index's analyzer extracts from a text
Analyze(text) == {text[i] : i \in DOMAIN text} \ {Blank, Colon, Bar, ""}

\* `query and query.strip()`
Truthy(query) == Strip(query) # <<>>

\* lines 162-171: search_text
SearchTerms(query) == SelectSeq(Split(query), LAMBDA t : ~HasColon(t))
RECURSIVE MapAfterColon(_)
MapAfterColon(ts) ==
    IF ts = <<>> THEN <<>> ELSE <<AfterColon(Head(ts))>> \o MapAfterColon(Tail(ts))
FilterTerms(query) == MapAfterColon(SelectSeq(Split(query), LAMBDA t : HasColon(t)))
SearchText(query) == Strip(Join(<<Blank>>, SearchTerms(query) \o FilterTerms(query)))

\* ------------------------------------------------------------------ clauses
\* A clause of the structured query.  fields is a set of <<field, boost>>
\* pairs, boosts in tenths (title^4 is <<"title", 40>>); num carries the
\* operand of a range or term filter.
Clause(type, text, fields, num) ==
    [type |-> type, text |-> text, fields |-> fields, num |-> num]

MatchAll == Clause("match_all", <<>>, {}, 0)

\* lines 175-182
MultiMatch(search_text) ==
    Clause("multi_match", search_text,
           {<<"title", 40>>, <<"abstract", 20>>, <<"keywords", 15>>, <<"organism", 10>>,
            <<"methods", 10>>, <<"conclusions", 10>>, <<"summary", 10>>}, 0)

MatchPhrase(field, text, boost) == Clause("match_phrase", text, {<<field, boost>>}, 0)

\* lines 220-224
SingleFacetClause(key, vals) ==
    Clause("simple_query_string",
           Join(<<Blank, Bar, Blank>>, [i \in DOMAIN vals |-> <<vals[i]>>]),
           {<<"title", 30>>, <<"abstract", 20>>, <<key, 20>>, <<"keywords", 10>>,
            <<"summary", 10>>, <<"methods", 10>>, <<"conclusions", 10>>}, 0)

\* lines 234-239
MultiFacetClause(key, vals) ==
    Clause("simple_query_string",
           Join(<<Blank, Bar, Blank>>, [i \in DOMAIN vals |-> <<vals[i]>>]),
           {<<"title", 20>>, <<"abstract", 15>>, <<key, 20>>, <<"keywords", 10>>,
            <<"summary", 10>>}, 0)

\* lines 227-229 and 242-244: two phrase boosts per value
RECURSIVE PhraseBoosts(_, _, _)
PhraseBoosts(vals, titleBoost, abstractBoost) ==
    IF vals = <<>> THEN <<>>
    ELSE << MatchPhrase("title", <<Head(vals)>>, titleBoost),
            MatchPhrase("abstract", <<Head(vals)>>, abstractBoost) >>
         \o PhraseBoosts(Tail(vals), titleBoost, abstractBoost)

FacetKeys == <<"organism", "mission", "environment">>

\* lines 207-213: the facets whose value list is truthy, each with its empty
\* values dropped
RECURSIVE TextualFacetsFrom(_, _)
TextualFacetsFrom(filters, i) ==
    IF i > Len(FacetKeys) THEN <<>>
    ELSE LET key == FacetKeys[i]
             vals == filters[key]
         IN (IF vals # <<>>
             THEN << [key |-> key, vals |-> SelectSeq(vals, LAMBDA v : v # "")] >>
             ELSE <<>>)
            \o TextualFacetsFrom(filters, i + 1)
textual_facets(filters) == TextualFacetsFrom(filters, 1)

\* a slip: only the first facet is required
MultiFacetMust_FirstOnly(tf) == <<MultiFacetClause(Head(tf).key, Head(tf).vals)>>

RECURSIVE MultiFacetMust(_)
MultiFacetMust(tf) ==
    IF tf = <<>> THEN <<>>
    ELSE <<MultiFacetClause(Head(tf).key, Head(tf).vals)>> \o MultiFacetMust(Tail(tf))

RECURSIVE MultiFacetShould(_)
MultiFacetShould(tf) ==
    IF tf = <<>> THEN <<>>
    ELSE PhraseBoosts(Head(tf).vals, 16, 12) \o MultiFacetShould(Tail(tf))

\* lines 251-268: the binary flags (the block appears twice in the source)
BinaryFilters(filters) ==
    (IF filters.hasOSDR # None
     THEN <<Clause("term_hasOSDR", <<>>, {}, IF filters.hasOSDR = "True" THEN 1 ELSE 0)>>
     ELSE <<>>)
    \o (IF filters.hasDOI # None /\ filters.hasDOI = "True"
        THEN <<Clause("exists_doi", <<>>, {}, 0)>> ELSE <<>>)

\* lines 195-202 (a year bound of 0 is falsy, like an absent one)
RangeFilters(filters) ==
    (IF filters.year_gte # 0
     THEN <<Clause("range_gte", <<>>, {}, filters.year_gte)>> ELSE <<>>)
    \o (IF filters.year_lte # 0
        THEN <<Clause("range_lte", <<>>, {}, filters.year_lte)>> ELSE <<>>)

\* lines 161-193: the required and optional clauses of the free text
TextMust(query) ==
    IF Truthy(query)
    THEN (IF SearchText(query) # <<>> THEN <<MultiMatch(SearchText(query))>>
          ELSE <<MatchAll>>)
    ELSE <<>>
TextShould(query) ==
    IF Truthy(query) /\ SearchText(query) # <<>>
    THEN <<MatchPhrase("title", SearchText(query), 20)>> ELSE <<>>

\* a slip: several facets only boost, none is required
FacetMust_OptionalWhenMany(tf) ==
    IF Len(tf) = 1 THEN <<SingleFacetClause(tf[1].key, tf[1].vals)>> ELSE <<>>

\* lines 215-244: one facet broadens, two or more are required together
FacetMust(tf) ==
    IF Len(tf) = 1 THEN <<SingleFacetClause(tf[1].key, tf[1].vals)>>
    ELSE IF Len(tf) >= 2 THEN MultiFacetMust(tf)
    ELSE <<>>
FacetShould(tf) ==
    IF Len(tf) = 1 THEN PhraseBoosts(tf[1].vals, 20, 13)
    ELSE IF Len(tf) >= 2 THEN MultiFacetShould(tf)
    ELSE <<>>

\* a slip: the emptiness test without the strip()
MatchAllFallback_NoStrip(query, tf) ==
    IF query = <<>> /\ tf = <<>> THEN <<MatchAll>> ELSE <<>>

\* lines 246-248
MatchAllFallback(query, tf) ==
    IF ~Truthy(query) /\ tf = <<>> THEN <<MatchAll>> ELSE <<>>

\* lines 125-268: the primary query of search_elasticsearch
BuildQuery(query, filters, size, offset) ==
    LET tf == textual_facets(filters)
    IN [size |-> size, from |-> offset, gauss |-> TRUE, sort |-> "_score",
        must |-> TextMust(query) \o FacetMust(tf) \o MatchAllFallback(query, tf),
        should |-> TextShould(query) \o FacetShould(tf),
        filter |-> RangeFilters(filters) \o BinaryFilters(filters)
                   \o BinaryFilters(filters)]

\* ------------------------------------------------- the document index (ES)
\* The index is an external collaborator; its documented behaviour is
\* modelled so that the cascade has something to run against.
FieldNames == {"title", "abstract", "keywords", "organism", "mission", "environment",
               "methods", "conclusions", "summary", "authors"}

Terms(title, abstract, organism, mission, methods) ==
    [f \in FieldNames |->
        CASE f = "title" -> title
          [] f = "abstract" -> abstract
          [] f = "organism" -> organism
          [] f = "mission" -> mission
          [] f = "methods" -> methods
          [] OTHER -> {}]

\* _source of an indexed document; year 0 and id "" stand for a missing field
Doc(id, title, url, year, hasOSDR, doi, terms) ==
    [id |-> id, title |-> title, url |-> url, year |-> year,
     hasOSDR |-> hasOSDR, doi |-> doi, terms |-> terms]

DocPool == <<
    Doc("p1", "T1", "u1", 2024, TRUE, TRUE,
        Terms({"bone"}, {"bone", "mouse"}, {"mouse"}, {"iss"}, {})),
    Doc("p2", "T2", "u2", 2020, FALSE, TRUE,
        Terms({"bone"}, {"mouse"}, {"human"}, {"iss"}, {})),
    Doc("p3", "T3", "u3", 2026, FALSE, FALSE,
        Terms({}, {"bone"}, {"mouse"}, {"iss"}, {})),
    \* same title and url as p1 under another id
    Doc("p4", "T1", "u1", 2019, TRUE, FALSE,
        Terms({"bone"}, {}, {"mouse"}, {"iss"}, {})),
    \* the same paper as p2 (id and url) indexed twice
    Doc("p2", "T5", "u2", 2018, FALSE, TRUE,
        Terms({"bone", "mouse"}, {}, {}, {"iss"}, {})),
    \* mentions its organism and topic only in the methods
    Doc("p6", "T6", "u6", 2010, TRUE, TRUE,
        Terms({"plant"}, {}, {"plant"}, {}, {"mouse", "bone"})),
    Doc("p7", "T7", "u7", 2022, FALSE, FALSE,
        Terms({"bone"}, {}, {"human"}, {}, {}))
>>

\* the documents of the pool whose position is in S, in index order
RECURSIVE PoolFrom(_, _)
PoolFrom(S, i) ==
    IF i > Len(DocPool) THEN <<>>
    ELSE (IF i \in S THEN <<DocPool[i]>> ELSE <<>>) \o PoolFrom(S, i + 1)

\* an archive of older papers behind the pool: position Len(DocPool) + k is
\* the k-th archived paper, a plant study that mentions no query word
ArchiveDoc(k) ==
    Doc(ToString(k), ToString(k), ToString(k), 1990 + ((7 * k) % 31), FALSE, TRUE,
        Terms({"plant"}, {}, {"plant"}, {}, {}))
Archive(n) == [k \in 1..n |-> ArchiveDoc(k)]

Docs(S) == PoolFrom(S, 1) \o Archive(Cardinality(S \ DOMAIN DocPool))

\* does the document satisfy the clause
Matches(doc, c) ==
    CASE c.type = "match_all" -> TRUE
      [] c.type \in {"multi_match", "simple_query_string", "match"} ->
            \E fb \in c.fields : Analyze(c.text) \cap doc.terms[fb[1]] # {}
      [] c.type = "match_phrase" ->
            /\ Analyze(c.text) # {}
            /\ \E fb \in c.fields : Analyze(c.text) \subseteq doc.terms[fb[1]]
      [] c.type = "range_gte" -> doc.year # 0 /\ doc.year >= c.num
      [] c.type = "range_lte" -> doc.year # 0 /\ doc.year <= c.num
      [] c.type = "term_hasOSDR" -> doc.hasOSDR = (c.num = 1)
      [] c.type = "exists_doi" -> doc.doi
      [] OTHER -> FALSE

MatchCount(doc, clauses) ==
    Cardinality({i \in DOMAIN clauses : Matches(doc, clauses[i])})
AllMatch(doc, clauses) == MatchCount(doc, clauses) = Len(clauses)
AnyMatch(doc, clauses) == MatchCount(doc, clauses) > 0

\* bool query: must and filter clauses are required; should clauses are
\* required (one of them) only when there is neither a must nor a filter
BoolMatches(doc, q) ==
    /\ AllMatch(doc, q.must \o q.filter)
    /\ (q.must = <<>> /\ q.filter = <<>> /\ q.should # <<>>) => AnyMatch(doc, q.should)

\* field-weighted text relevance of one clause, in tenths
RECURSIVE FieldSum(_, _, _)
FieldSum(doc, words, fields) ==
    IF fields = {} THEN 0
    ELSE LET fb == CHOOSE x \in fields : TRUE
         IN fb[2] * Cardinality(words \cap doc.terms[fb[1]])
            + FieldSum(doc, words, fields \ {fb})

ClauseScore(doc, c) ==
    CASE c.type = "match_all" -> 10
      [] c.type \in {"multi_match", "simple_query_string", "match"} ->
            FieldSum(doc, Analyze(c.text), c.fields)
      [] c.type = "match_phrase" ->
            IF Matches(doc, c) THEN (CHOOSE fb \in c.fields : TRUE)[2] ELSE 0
      [] OTHER -> 0

RECURSIVE ClausesScore(_, _)
ClausesScore(doc, clauses) ==
    IF clauses = <<>> THEN 0
    ELSE ClauseScore(doc, Head(clauses)) + ClausesScore(doc, Tail(clauses))

\* gauss decay on year (origin 2025, scale 5, decay 0.5) in thousandths:
\* 0.5 ^ ((d / 5) ^ 2) for a distance of d years from the origin
GaussTable == <<973, 895, 779, 642, 500, 369, 257, 170, 106, 63, 35, 18, 9, 4, 2, 1>>
Abs(n) == IF n < 0 THEN -n ELSE n
Gauss(year) ==
    LET d == Abs(year - GaussOrigin)
    IN IF year = 0 \/ d = 0 THEN 1000
       ELSE IF d <= Len(GaussTable) THEN GaussTable[d] ELSE 0

\* _score in thousandths (score_mode sum, boost_mode sum)
Score(doc, q) ==
    100 * ClausesScore(doc, q.must \o q.should)
    + (IF q.gauss THEN Gauss(doc.year) ELSE 0)

SortKey(doc, q, score) == IF q.sort = "year" THEN doc.year ELSE score

\* the positions idxs ordered by sort key, best first (ties in index order)
RECURSIVE RankedBy(_, _)
RankedBy(key, idxs) ==
    IF idxs = {} THEN <<>>
    ELSE <<CHOOSE i \in idxs : \A j \in idxs :
               key[i] > key[j] \/ (key[i] = key[j] /\ i <= j)>>
         \o RankedBy(key, idxs \ {CHOOSE i \in idxs : \A j \in idxs :
                                      key[i] > key[j] \/ (key[i] = key[j] /\ i <= j)})

\* the requested page of the ranked hits, with hits.total.value
EsPage(docs, q, score, order) ==
    [total |-> Len(order),
     hits |-> [k \in 1..Max(0, Min(Len(order), q.from + q.size) - q.from) |->
                 [_source |-> docs[order[q.from + k]],
                  _score |-> score[order[q.from + k]]]]]

EsRank(docs, q, score, matching) ==
    EsPage(docs, q, score,
           RankedBy([i \in DOMAIN docs |-> SortKey(docs[i], q, score[i])], matching))

\* POST /_search
EsSearch(docs, q) ==
    EsRank(docs, q,
           [i \in DOMAIN docs |-> Score(docs[i], q)],
           {i \in DOMAIN docs : BoolMatches(docs[i], q)})

\* ------------------------------------------- search_elasticsearch, cascade
VARIABLES
    req,        \* the request: [query, filters, size, offset]
    corpus,     \* the documents in the index (positions in the pool)
    pc,         \* position inside search_elasticsearch
    es_query,   \* the primary query once built
    total,      \* local `total`
    deduped,    \* local `deduped`
    seen,       \* local `seen`
    calls,      \* index calls issued so far: <<stage, outcome>>
    ret         \* what the call produced: a dict, or an escaped exception

searchVars == <<req, corpus, pc, es_query, total, deduped, seen, calls, ret>>

NoQuery == [size |-> 0, from |-> 0, gauss |-> FALSE, sort |-> "_score",
            must |-> <<>>, should |-> <<>>, filter |-> <<>>]
NoRet == [kind |-> "none", total |-> 0, results |-> <<>>, error |-> FALSE]

\* lines 291-318 (the fields the cascade and its callers read)
to_api_result(hit) ==
    [id |-> hit._source.id, title |-> hit._source.title, url |-> hit._source.url,
     year |-> hit._source.year, hasOSDR |-> hit._source.hasOSDR,
     doi |-> hit._source.doi, score |-> hit._score]

\* line 325: f"{r.get('id') or ''}::{r.get('url') or ''}"
DedupKey(r) == <<r.id, r.url>>

\* lines 322-329, 365-371, 391-398: walk the hits, keep the first of each key
RECURSIVE DedupInto(_, _, _)
DedupInto(hits, seenKeys, out) ==
    IF hits = <<>> THEN [seen |-> seenKeys, deduped |-> out]
    ELSE LET r == to_api_result(Head(hits))
         IN IF DedupKey(r) \in seenKeys
            THEN DedupInto(Tail(hits), seenKeys, out)
            ELSE DedupInto(Tail(hits), seenKeys \cup {DedupKey(r)}, Append(out, r))

\* line 332
Threshold(size) == Max(MinHits, size \div 3)

\* a slip: the relaxed query built without the primary query's filters
RelaxedQuery_NoFilter(query, primary, size) ==
    [size |-> size, from |-> 0, gauss |-> FALSE, sort |-> "_score",
     must |-> <<>>,
     should |-> << Clause("multi_match", query,
                          {<<"title", 40>>, <<"abstract", 20>>, <<"keywords", 15>>,
                           <<"summary", 10>>, <<"methods", 10>>, <<"conclusions", 10>>,
                           <<"authors", 10>>}, 0),
                   Clause("match", query, {<<"abstract", 12>>}, 0),
                   Clause("match", query, {<<"title", 15>>}, 0) >>,
     filter |-> <<>>]

\* a slip: the relaxed query asking for the whole index
RelaxedQuery_Unpaged(query, primary, size) ==
    [RelaxedQuery_NoFilter(query, primary, size) EXCEPT
        !.size = 10000, !.filter = primary.filter]

\* lines 333-354
RelaxedQuery(query, primary, size) ==
    [size |-> size, from |-> 0, gauss |-> FALSE, sort |-> "_score",
     must |-> <<>>,
     should |-> << Clause("multi_match", query,
                          {<<"title", 40>>, <<"abstract", 20>>, <<"keywords", 15>>,
                           <<"summary", 10>>, <<"methods", 10>>, <<"conclusions", 10>>,
                           <<"authors", 10>>}, 0),
                   Clause("match", query, {<<"abstract", 12>>}, 0),
                   Clause("match", query, {<<"title", 15>>}, 0) >>,
     filter |-> primary.filter]

\* a slip: the fallback asking for the whole index
FallbackQuery_Uncapped(size) ==
    [size |-> 10000, from |-> 0, gauss |-> FALSE, sort |-> "year",
     must |-> <<MatchAll>>, should |-> <<>>, filter |-> <<>>]

\* line 379
FallbackQuery(size) ==
    [size |-> Max(FallbackMin, size), from |-> 0, gauss |-> FALSE, sort |-> "year",
     must |-> <<MatchAll>>, should |-> <<>>, filter |-> <<>>]

Outcomes == {"ok", "exception", "non200"}

Return(t, results, err) == [kind |-> "dict", total |-> t, results |-> results, error |-> err]

\* lines 122-268: build the primary query
Build ==
    /\ pc = "start"
    /\ es_query' = BuildQuery(req.query, req.filters, req.size, req.offset)
    /\ pc' = "primary"
    /\ UNCHANGED <<req, corpus, total, deduped, seen, calls, ret>>

\* lines 287-329: a successful primary reply read into total, deduped, seen
PrimaryRead(data) ==
    [total |-> data.total,
     deduped |-> DedupInto(data.hits, {}, <<>>).deduped,
     seen |-> DedupInto(data.hits, {}, <<>>).seen]

PrimaryOk(docs, q) == PrimaryRead(EsSearch(docs, q))

\* a slip: the new relaxed hits placed in front of the primary hits
RelaxedRead_RelaxedFirst(rdata, st) ==
    [total |-> Len(DedupInto(rdata.hits, st.seen, st.deduped).deduped),
     deduped |-> DedupInto(rdata.hits, st.seen, <<>>).deduped \o st.deduped,
     seen |-> DedupInto(rdata.hits, st.seen, st.deduped).seen]

\* lines 365-372: the relaxed hits merged into the accumulated state
RelaxedRead(rdata, st) ==
    [total |-> Len(DedupInto(rdata.hits, st.seen, st.deduped).deduped),
     deduped |-> DedupInto(rdata.hits, st.seen, st.deduped).deduped,
     seen |-> DedupInto(rdata.hits, st.seen, st.deduped).seen]

\* a slip: the relaxed hits appended without consulting `seen`
RelaxedOk_NoSeen(docs, query, q, size, st) ==
    RelaxedRead(EsSearch(docs, RelaxedQuery(query, q, size)),
                [st EXCEPT !.seen = {}])

\* lines 355-372: a successful relaxed reply
RelaxedOk(docs, query, q, size, st) ==
    RelaxedRead(EsSearch(docs, RelaxedQuery(query, q, size)), st)

\* lines 389-400: the fallback hits replace the accumulated list
FallbackRead(fdata, st) ==
    [total |-> Len(DedupInto(fdata.hits, {}, <<>>).deduped),
     deduped |-> DedupInto(fdata.hits, {}, <<>>).deduped,
     seen |-> st.seen]

\* lines 380-400: a successful fallback reply
FallbackOk(docs, size, st) == FallbackRead(EsSearch(docs, FallbackQuery(size)), st)

\* a slip: the fallback tested on the wrong condition and never taken
NeedsFallback_Never(t) == FALSE

\* a slip: the threshold without the page-size term
NeedsRelaxed_MinOnly(t, size) == t < MinHits

\* a slip: an empty primary result sent straight to the fallback
NeedsRelaxed_NonZero(t, size) == t < Threshold(size) /\ t # 0

\* line 332 and line 377: which stage follows
NeedsRelaxed(t, size) == t < Threshold(size)
NeedsFallback(t) == t = 0

\* the locals as one record
Locals == [total |-> total, deduped |-> deduped, seen |-> seen]

\* lines 270-332 and 376-377, 402: the primary call and what follows it up to
\* the next index call or the return
Primary(outcome) ==
    /\ pc = "primary"
    /\ calls' = Append(calls, <<"primary", outcome>>)
    /\ IF outcome # "ok"
       THEN /\ ret' = Return(0, <<>>, TRUE)
            /\ pc' = "done"
            /\ UNCHANGED <<total, deduped, seen>>
       ELSE \E st \in {PrimaryOk(Docs(corpus), es_query)} :
               /\ total' = st.total
               /\ deduped' = st.deduped
               /\ seen' = st.seen
               /\ IF NeedsRelaxed(st.total, req.size)
                  THEN pc' = "relaxed" /\ ret' = ret
                  ELSE IF NeedsFallback(st.total)
                       THEN pc' = "fallback" /\ ret' = ret
                       ELSE pc' = "done" /\ ret' = Return(st.total, st.deduped, FALSE)
    /\ UNCHANGED <<req, corpus, es_query>>

\* lines 333-377, 402: the relaxed call; a failure is logged and skipped
Relaxed(outcome) ==
    /\ pc = "relaxed"
    /\ calls' = Append(calls, <<"relaxed", outcome>>)
    /\ \E st \in {IF outcome = "ok"
                  THEN RelaxedOk(Docs(corpus), req.query, es_query, req.size, Locals)
                  ELSE Locals} :
          /\ deduped' = st.deduped
          /\ seen' = st.seen
          /\ total' = st.total
          /\ IF NeedsFallback(st.total)
             THEN pc' = "fallback" /\ ret' = ret
             ELSE pc' = "done" /\ ret' = Return(st.total, st.deduped, FALSE)
    /\ UNCHANGED <<req, corpus, es_query>>

\* lines 377-402: the universal fallback call, made outside any try block
Fallback(outcome) ==
    /\ pc = "fallback"
    /\ calls' = Append(calls, <<"fallback", outcome>>)
    /\ IF outcome = "exception"
       THEN /\ ret' = [kind |-> "raise", total |-> 0, results |-> <<>>, error |-> FALSE]
            /\ UNCHANGED <<total, deduped, seen>>
       ELSE \E st \in {IF outcome = "ok"
                       THEN FallbackOk(Docs(corpus), req.size, Locals)
                       ELSE Locals} :
               /\ deduped' = st.deduped
               /\ total' = st.total
               /\ seen' = st.seen
               /\ ret' = Return(st.total, st.deduped, FALSE)
    /\ pc' = "done"
    /\ UNCHANGED <<req, corpus, es_query>>

\* lines 331-402 after a primary reply st1, every index call answered 200
RunRest(r, docs, q, st1) ==
    IF ~NeedsRelaxed(st1.total, r.size) THEN st1.deduped
    ELSE IF ~NeedsFallback(RelaxedOk(docs, r.query, q, r.size, st1).total)
         THEN RelaxedOk(docs, r.query, q, r.size, st1).deduped
         ELSE FallbackOk(docs, r.size, st1).deduped

\* the list search_elasticsearch returns for request r when every index call
\* is answered with status 200
RunOk(r, docs) ==
    RunRest(r, docs, BuildQuery(r.query, r.filters, r.size, r.offset),
            PrimaryOk(docs, BuildQuery(r.query, r.filters, r.size, r.offset)))

\* ------------------------------------------------------------------- ai.py
VARIABLES
    papers,     \* what search_fn(query, 6) hands back
    api_key,    \* whether OPENAI_API_KEY is set
    rpc,        \* position inside answer_with_rag
    context,    \* the context entries, in order
    sources,    \* the citation list
    rag_ret     \* what answer_with_rag produced

ragVars == <<papers, api_key, rpc, context, sources, rag_ret>>

\* a retrieved paper: the title, url and year (a "" or 0 is a missing value)
\* and the lengths of its stripped abstract and summary
Paper(title, url, year, absLen, sumLen) ==
    [title |-> title, url |-> url, year |-> year, absLen |-> absLen, sumLen |-> sumLen]

\* line 49-52
TitleOf(p) == IF p.title # "" THEN p.title ELSE "Untitled"
YearOf(p) == IF p.year # 0 THEN ToString(p.year) ELSE "n/a"
AbstractLen(p) == IF p.absLen # 0 THEN p.absLen ELSE p.sumLen
\* line 53: len(abstract[:800])
SnippetOf(p) == Min(AbstractLen(p), SnippetLen)

\* line 54: len(f"[{i}] {title} ({year})\nURL: {url}\nAbstract: {snippet}\n")
EntryLen(i, p) ==
    1 + Len(ToString(i)) + 2 + Len(TitleOf(p)) + 2 + Len(YearOf(p)) + 7
    + Len(p.url) + 11 + SnippetOf(p) + 1

\* a slip: the citation recorded before the budget test
RECURSIVE FormatFrom_CiteFirst(_, _, _, _, _, _)
FormatFrom_CiteFirst(ps, i, max_chars, tot, ctx_lines, cites) ==
    IF i > Len(ps) THEN [ctx_lines |-> ctx_lines, cites |-> cites]
    ELSE LET p == ps[i]
             entry == [idx |-> i, title |-> TitleOf(p), url |-> p.url,
                       year |-> YearOf(p), snippet |-> SnippetOf(p),
                       len |-> EntryLen(i, p)]
             cited == Append(cites, [idx |-> i, title |-> TitleOf(p),
                                     url |-> p.url, year |-> YearOf(p)])
         IN IF tot + entry.len > max_chars
            THEN [ctx_lines |-> ctx_lines, cites |-> cited]
            ELSE FormatFrom_CiteFirst(ps, i + 1, max_chars, tot + entry.len,
                                      Append(ctx_lines, entry), cited)

\* lines 45-60: the loop, breaking at the first entry that does not fit
RECURSIVE FormatFrom(_, _, _, _, _, _)
FormatFrom(ps, i, max_chars, tot, ctx_lines, cites) ==
    IF i > Len(ps) THEN [ctx_lines |-> ctx_lines, cites |-> cites]
    ELSE LET p == ps[i]
             entry == [idx |-> i, title |-> TitleOf(p), url |-> p.url,
                       year |-> YearOf(p), snippet |-> SnippetOf(p),
                       len |-> EntryLen(i, p)]
         IN IF tot + entry.len > max_chars
            THEN [ctx_lines |-> ctx_lines, cites |-> cites]
            ELSE FormatFrom(ps, i + 1, max_chars, tot + entry.len,
                            Append(ctx_lines, entry),
                            Append(cites, [idx |-> i, title |-> TitleOf(p),
                                           url |-> p.url, year |-> YearOf(p)]))
_format_sources(ps, max_chars) == FormatFrom(ps, 1, max_chars, 0, <<>>, <<>>)

\* len("\n".join(ctx_lines))
RECURSIVE SumLen(_)
SumLen(entries) == IF entries = <<>> THEN 0 ELSE Head(entries).len + SumLen(Tail(entries))
ContextLen(ctx_lines) ==
    SumLen(ctx_lines) + (IF ctx_lines = <<>> THEN 0 ELSE Len(ctx_lines) - 1)

NoRagRet == [kind |-> "none", answer |-> "", sources |-> <<>>]

\* lines 68-69: retrieve and format
FormatStep ==
    /\ rpc = "start"
    /\ LET f == _format_sources(papers, MaxChars)
       IN context' = f.ctx_lines /\ sources' = f.cites
    /\ rpc' = "chat"
    /\ UNCHANGED <<papers, api_key, rag_ret>>

ChatOutcomes == {"ok", "status_error", "exception", "malformed"}

\* lines 90-96 with _post_chat (lines 17-38)
PostChat(outcome) ==
    /\ rpc = "chat"
    /\ IF ~api_key
       THEN rag_ret' = [kind |-> "raise", answer |-> "", sources |-> <<>>]
       ELSE IF outcome = "ok"
            THEN rag_ret' = [kind |-> "return", answer |-> "generated", sources |-> sources]
            ELSE rag_ret' = [kind |-> "raise", answer |-> "", sources |-> <<>>]
    /\ rpc' = "done"
    /\ UNCHANGED <<papers, api_key, context, sources>>

\* ------------------------------------------- chat_stream (/api/chat-stream)
VARIABLES
    gemini_client,  \* whether the Gemini client was initialised (lines 730-741)
    response,       \* what generate_content hands back when it returns
    gen,            \* how the generate_content call ended
    spc,            \* position inside chat_stream
    events          \* the server-sent events yielded so far

streamVars == <<gemini_client, response, gen, spc, events>>

\* a candidate of the response: its finish_reason (0 when the attribute is
\* absent) and the texts of its parts
Candidate(fr, parts) == [finish_reason |-> fr, parts |-> parts]

\* a response: .text (Absent when the accessor raises or is missing) and the
\* candidates
GenResponse(text, candidates) == [text |-> text, candidates |-> candidates]

\* lines 758-763, 768-773: the non-empty part texts
TextParts(parts) == SelectSeq(parts, LAMBDA t : t # <<>>)

\* lines 753-775: the first candidate with any text, its texts joined by ' '
RECURSIVE FromCandidates(_)
FromCandidates(cs) ==
    IF cs = <<>> THEN Absent
    ELSE IF TextParts(Head(cs).parts) # <<>>
         THEN Join(<<Blank>>, TextParts(Head(cs).parts))
         ELSE FromCandidates(Tail(cs))

\* lines 743-777
safe_extract_text_from_response(r) ==
    IF r.text # Absent /\ r.text # <<>> THEN r.text ELSE FromCandidates(r.candidates)

\* lines 909-917: the fallback messages, by their distinguishing words
LengthMsg == <<"response", Blank, "cut", Blank, "off", Blank, "length", Blank, "limits">>
SafetyMsg == <<"unable", Blank, "content", Blank, "safety", Blank, "guidelines">>
PolicyMsg == <<"unable", Blank, "content", Blank, "policy", Blank, "restrictions">>
IssueMsg(code) == <<"issue", Blank, "code", Blank, ToString(code)>>
SorryMsg == <<"sorry", Blank, "couldn't", Blank, "generate">>

\* a slip: the content-policy reason answered with the content-safety text
FallbackMessage_PolicyAsSafety(r) ==
    IF r.candidates # <<>>
    THEN CASE r.candidates[1].finish_reason = 2 -> LengthMsg
           [] r.candidates[1].finish_reason \in {3, 4} -> SafetyMsg
           [] OTHER -> IssueMsg(r.candidates[1].finish_reason)
    ELSE SorryMsg

\* lines 904-917
FallbackMessage(r) ==
    IF r.candidates # <<>>
    THEN CASE r.candidates[1].finish_reason = 2 -> LengthMsg
           [] r.candidates[1].finish_reason = 3 -> SafetyMsg
           [] r.candidates[1].finish_reason = 4 -> PolicyMsg
           [] OTHER -> IssueMsg(r.candidates[1].finish_reason)
    ELSE SorryMsg

\* lines 900-917: response_text
ResponseText(r) ==
    IF safe_extract_text_from_response(r) = Absent
    THEN FallbackMessage(r)
    ELSE safe_extract_text_from_response(r)

\* lines 920-924: one data event per word, a blank after all but the last
Chunks(words) ==
    [i \in DOMAIN words |->
        [event |-> "data",
         content |-> IF i < Len(words) THEN Append(words[i], Blank) ELSE words[i]]]

DoneEvent == [event |-> "done", content |-> <<>>]
ErrorEvent == [event |-> "error", content |-> <<>>]

\* lines 860-872: no client, a single error event
StreamUnavailable ==
    /\ spc = "start"
    /\ ~gemini_client
    /\ events' = <<ErrorEvent>>
    /\ spc' = "done"
    /\ UNCHANGED <<gemini_client, response, gen>>

GenOutcomes == {"ok", "raise"}

\* lines 877-931: generate()
Generate(outcome) ==
    /\ spc = "start"
    /\ gemini_client
    /\ gen' = outcome
    /\ events' = IF outcome = "raise"
                 THEN <<ErrorEvent>>
                 ELSE Append(Chunks(Split(ResponseText(response))), DoneEvent)
    /\ spc' = "done"
    /\ UNCHANGED <<gemini_client, response>>

\* what the client reads: the contents of the data events, concatenated
RECURSIVE Reply(_)
Reply(evs) ==
    IF evs = <<>> THEN <<>>
    ELSE (IF Head(evs).event = "data" THEN Head(evs).content ELSE <<>>) \o Reply(Tail(evs))

\* -------------------------------------------------- list_papers (/api/papers)
VARIABLES
    args,       \* request.args: the raw query-string parameters
    lpc,        \* position inside list_papers
    lres        \* the response: status, the search call made, its outcome

listVars == <<args, lpc, lres>>

Comma == ","
Digits == {"0", "1", "2", "3", "4", "5", "6", "7", "8", "9"}

\* int(s) succeeds on a non-empty string of digits
IsInt(s) == s # <<>> /\ \A i \in DOMAIN s : s[i] \in Digits
DigitVal(c) == CHOOSE d \in 0..9 : ToString(d) = c
RECURSIVE IntOf(_)
IntOf(s) == IF s = <<>> THEN 0 ELSE 10 * IntOf(SubSeq(s, 1, Len(s) - 1)) + DigitVal(s[Len(s)])

\* request.args.get(k) is truthy
Given(v) == v # Absent /\ v # <<>>

\* v.split(",")
RECURSIVE SplitComma(_, _)
SplitComma(s, cur) ==
    IF s = <<>> THEN <<cur>>
    ELSE IF Head(s) = Comma THEN <<cur>> \o SplitComma(Tail(s), <<>>)
         ELSE SplitComma(Tail(s), Append(cur, Head(s)))

\* lines 481-482: the stripped, non-empty items, each a single word here
RECURSIVE StripAll(_)
StripAll(parts) ==
    IF parts = <<>> THEN <<>>
    ELSE (IF Strip(Head(parts)) # <<>> THEN Strip(Head(parts)) ELSE <<>>)
         \o StripAll(Tail(parts))
_split_vals(v) == StripAll(SplitComma(v, <<>>))

\* lines 489-494
FlagOf(v) == IF v = None THEN None
             ELSE IF v \in {"1", "true", "True", "yes"} THEN "True" ELSE "False"

\* lines 461-469
has_filter_params(a) ==
    \/ Given(a.year_gte) \/ Given(a.year_lte) \/ Given(a.organism)
    \/ (a.hasOSDR # None /\ a.hasOSDR # "")

\* lines 476-479: the int() calls raise on a non-numeric bound
YearsParse(a) ==
    /\ Given(a.year_gte) => IsInt(a.year_gte)
    /\ Given(a.year_lte) => IsInt(a.year_lte)

\* lines 475-494: the filters handed to search_elasticsearch
FiltersOf(a) ==
    [year_gte |-> IF Given(a.year_gte) THEN IntOf(a.year_gte) ELSE 0,
     year_lte |-> IF Given(a.year_lte) THEN IntOf(a.year_lte) ELSE 0,
     organism |-> IF Given(a.organism) THEN _split_vals(a.organism) ELSE <<>>,
     mission |-> <<>>, environment |-> <<>>,
     hasOSDR |-> FlagOf(a.hasOSDR), hasDOI |-> None]

NoCall == [query |-> <<>>,
           filters |-> [year_gte |-> 0, year_lte |-> 0, organism |-> <<>>,
                        mission |-> <<>>, environment |-> <<>>,
                        hasOSDR |-> None, hasDOI |-> None]]
ListResponse(status, call, search) == [status |-> status, call |-> call, search |-> search]

SearchOutcomes == {"results", "error", "raise"}

\* lines 453-503
list_papers(search) ==
    /\ lpc = "start"
    /\ lres' =
         IF ~Truthy(args.q) /\ ~has_filter_params(args)
         THEN ListResponse(200, NoCall, "none")
         ELSE IF ~YearsParse(args)
              THEN ListResponse(500, NoCall, "none")
              ELSE ListResponse(IF search = "results" THEN 200 ELSE 500,
                                [query |-> Strip(args.q), filters |-> FiltersOf(args)],
                                search)
    /\ lpc' = "done"
    /\ UNCHANGED args

\* ------------------------------------------------------------------ chat.py
VARIABLES
    thread_type,    \* Thread rows: id -> type
    ai_reply_fn,    \* whether app.config["AI_REPLY_FN"] is set
    messages,       \* Message rows in insertion order: [thread_id, sender]
    ai_calls,       \* how many times the AI reply function was called
    last            \* what the last posting did

chatVars == <<thread_type, ai_reply_fn, messages, ai_calls, last>>

ThreadIds == {1, 2}

Message(thread_id, sender) == [thread_id |-> thread_id, sender |-> sender]

NoPost == [path |-> "none", thread_id |-> 0, sender |-> "", stored |-> FALSE,
           ai_called |-> FALSE, added |-> 0]

\* lines 143, 193: data.get("sender") or "user"
SenderOf(raw) == IF raw = None \/ raw = "" THEN "user" ELSE raw

\* a slip: the sender test dropped
TriggersReply_Any(sender) == TRUE

\* lines 156, 204
TriggersReply(sender) == sender # "assistant"

\* lines 92-97: the thread is an AI thread and a reply function is configured
WillReply(thread_id) == thread_type[thread_id] = "ai" /\ ai_reply_fn

AiOutcomes == {"content", "empty", "raise"}

\* lines 106-128: the rows _maybe_ai_reply stores
AiRows(thread_id, ai) ==
    IF ai = "empty" THEN <<>> ELSE <<Message(thread_id, "assistant")>>

\* lines 138-159 and 184-205: both paths store the message and then decide
\* on the reply the same way
Post(path, thread_id, raw_sender, has_content, ai) ==
    /\ Len(messages) + 2 <= MaxMessages
    /\ IF ~has_content \/ thread_id \notin DOMAIN thread_type
       THEN /\ last' = [NoPost EXCEPT !.path = path, !.thread_id = thread_id,
                                      !.sender = SenderOf(raw_sender)]
            /\ UNCHANGED <<messages, ai_calls>>
       ELSE IF TriggersReply(SenderOf(raw_sender)) /\ WillReply(thread_id)
            THEN /\ messages' = messages
                                \o <<Message(thread_id, SenderOf(raw_sender))>>
                                \o AiRows(thread_id, ai)
                 /\ ai_calls' = ai_calls + 1
                 /\ last' = [path |-> path, thread_id |-> thread_id,
                             sender |-> SenderOf(raw_sender), stored |-> TRUE,
                             ai_called |-> TRUE, added |-> 1 + Len(AiRows(thread_id, ai))]
            ELSE /\ messages' = Append(messages, Message(thread_id, SenderOf(raw_sender)))
                 /\ ai_calls' = ai_calls
                 /\ last' = [path |-> path, thread_id |-> thread_id,
                             sender |-> SenderOf(raw_sender), stored |-> TRUE,
                             ai_called |-> FALSE, added |-> 1]
    /\ UNCHANGED <<thread_type, ai_reply_fn>>

RawSenders == {None, "alice", "assistant"}

\* lines 131-159
post_message ==
    \E t \in ThreadIds \cup {3}, s \in RawSenders, c \in BOOLEAN, ai \in AiOutcomes :
        Post("rest", t, s, c, ai)

\* lines 178-205
on_message_new ==
    \E t \in ThreadIds \cup {3}, s \in RawSenders, c \in BOOLEAN, ai \in AiOutcomes :
        Post("socket", t, s, c, ai)

\* --------------------------------------------- the recency term, two documents
VARIABLES
    pair,       \* two indexed documents
    scored      \* their _score under the primary query, once computed

rankVars == <<pair, scored>>

\* the primary query of a free-text request
RankQuery ==
    BuildQuery(<<"bone">>,
               [year_gte |-> 0, year_lte |-> 0, organism |-> <<>>, mission |-> <<>>,
                environment |-> <<>>, hasOSDR |-> None, hasDOI |-> None],
               TopK, 0)

\* the text part of the score: the score without the decay function
TextScore(doc, q) == Score(doc, [q EXCEPT !.gauss = FALSE])

\* lines 129-150: both documents scored by the same query
ScorePair ==
    /\ scored = <<>>
    /\ scored' = <<Score(pair[1], RankQuery), Score(pair[2], RankQuery)>>
    /\ UNCHANGED pair

\* ------------------------------ chat.py, concurrent posts to one AI thread
\* Each poster sends one message to the same AI thread through post_message;
\* a reply function is configured.  The requests interleave at every database
\* and socket call.
VARIABLES
    rows,       \* Message rows of the thread, in commit order
    room,       \* "message:created" events sent to the thread room, in order
    post        \* per request: position, locals, response status, raised steps

replyVars == <<rows, room, post>>

Posters == 1..MaxPosts

\* a Message row; `by` records the request that stored it
Row(sender, content, by) == [sender |-> sender, content |-> content, by |-> by]

\* line 148: the poster's message (its text is identified by the poster)
UserRow(p) == Row("user", <<"text", p>>, p)
\* line 112: the answer to the question q
ReplyRow(p, q) == Row("assistant", <<"answer", q>>, p)
\* lines 124-125
ErrRow(p) == Row("assistant", <<"Sorry-AI reply failed", 0>>, p)

\* lines 100-104: the last 20 rows of the thread, oldest first
RecentLimit == 20
Recent(rs) == SubSeq(rs, Max(1, Len(rs) - RecentLimit + 1), Len(rs))

\* app_elasticsearch.py lines 415-419: the text of the last row in
\* recent_messages whose sender is not the assistant (0 when there is none)
LastUser(recent) ==
    IF \A i \in DOMAIN recent : recent[i].sender = "assistant" THEN 0
    ELSE recent[CHOOSE i \in DOMAIN recent :
                    /\ recent[i].sender # "assistant"
                    /\ \A j \in (i + 1)..Len(recent) : recent[j].sender = "assistant"
               ].content[2]

StepOutcomes == {"ok", "raise"}

\* a database commit followed by a socket emit: both work, the commit
\* raises, or the commit works and the emit raises
SendOutcomes == {"ok", "store_raises", "emit_raises"}

NewPost == [pc |-> "post", question |-> 0, status |-> 0, raised |-> {}]

\* an exception outside the try block of _maybe_ai_reply escapes post_message
Escapes(p, step) ==
    post' = [post EXCEPT ![p].pc = "done", ![p].status = 500,
                         ![p].raised = @ \cup {step}]

\* an exception inside the try block is caught at line 122
Caught(p, step) ==
    post' = [post EXCEPT ![p].pc = "err", ![p].raised = @ \cup {step}]

\* line 159: return jsonify(payload), 201
Responds(p) == post' = [post EXCEPT ![p].pc = "done", ![p].status = 201]

\* the row is committed unless the commit raises, and sent to the room when
\* neither call raises
Stored(row, outcome) == IF outcome = "store_raises" THEN <<>> ELSE <<row>>
Sent(row, outcome) == IF outcome = "ok" THEN <<row>> ELSE <<>>

\* lines 148-153: the poster's message is stored and sent to the room
PostMsg(p, outcome) ==
    /\ post[p].pc = "post"
    /\ rows' = rows \o Stored(UserRow(p), outcome)
    /\ room' = room \o Sent(UserRow(p), outcome)
    /\ IF outcome = "ok"
       THEN post' = [post EXCEPT ![p].pc = "ask"]
       ELSE Escapes(p, outcome)

\* a slip: a failed reply function left unanswered
AfterAi_Silent(outcome) ==
    CASE outcome = "content" -> "reply"
      [] outcome = "empty" -> "done"
      [] outcome = "raise" -> "done"

\* lines 107-110, 122: what follows the call of the reply function
AfterAi(outcome) ==
    CASE outcome = "content" -> "reply"
      [] outcome = "empty" -> "done"
      [] outcome = "raise" -> "err"

\* lines 156-157, 92-110: the recent messages are read and handed to the
\* reply function
AskAi(p, outcome) ==
    /\ post[p].pc = "ask"
    /\ post' = [post EXCEPT
                   ![p].pc = AfterAi(outcome),
                   ![p].question = LastUser(Recent(rows)),
                   ![p].status = IF AfterAi(outcome) = "done" THEN 201 ELSE @,
                   ![p].raised = IF outcome = "raise" THEN @ \cup {"ai"} ELSE @]
    /\ UNCHANGED <<rows, room>>

\* lines 112-121: the assistant message is stored and sent to the room
SendReply(p, outcome) ==
    /\ post[p].pc = "reply"
    /\ rows' = rows \o Stored(ReplyRow(p, post[p].question), outcome)
    /\ room' = room \o Sent(ReplyRow(p, post[p].question), outcome)
    /\ IF outcome = "ok" THEN Responds(p) ELSE Caught(p, outcome)

\* lines 122-128: the failure notice is stored and sent to the room
SendErr(p, outcome) ==
    /\ post[p].pc = "err"
    /\ rows' = rows \o Stored(ErrRow(p), outcome)
    /\ room' = room \o Sent(ErrRow(p), outcome)
    /\ IF outcome = "ok" THEN Responds(p) ELSE Escapes(p, outcome)

\* ------------------------------------------ ai_rag_es.py, lazy initialisation
\* Each caller is one thread running answer_with_rag once; the module globals
\* are shared and read or written one statement at a time.
VARIABLES
    _RETRIEVER,     \* global: 0 for None, or the caller whose init_rag built it
    _LLM,           \* global: "unset", None (no API key) or "llm"
    _INIT_DONE,     \* global flag
    gemini_key,     \* whether GEMINI_API_KEY is set
    caller,         \* per thread: position in answer_with_rag / init_rag
    inits           \* how many runs of init_rag wrote the index to the end

initVars == <<_RETRIEVER, _LLM, _INIT_DONE, gemini_key, caller, inits>>

Callers == 1..MaxCallers

CallerSteps(c, next) == caller' = [caller EXCEPT ![c] = next]

\* line 155: if not _INIT_DONE: init_rag(...)
CheckDone(c) ==
    /\ caller[c] = "call"
    /\ CallerSteps(c, IF _INIT_DONE THEN "retrieve" ELSE "init_rag")
    /\ UNCHANGED <<_RETRIEVER, _LLM, _INIT_DONE, gemini_key, inits>>

\* lines 92-93: if _INIT_DONE: return
EnterInit_Next(done) == IF done THEN "retrieve" ELSE "load"

EnterInit(c) ==
    /\ caller[c] = "init_rag"
    /\ CallerSteps(c, EnterInit_Next(_INIT_DONE))
    /\ UNCHANGED <<_RETRIEVER, _LLM, _INIT_DONE, gemini_key, inits>>

\* lines 101-107: the documents are read; none with an abstract raises
LoadDocs(c, outcome) ==
    /\ caller[c] = "load"
    /\ CallerSteps(c, IF outcome = "ok" THEN "upsert" ELSE "raised")
    /\ UNCHANGED <<_RETRIEVER, _LLM, _INIT_DONE, gemini_key, inits>>

\* lines 111-120: the documents are written to the vector index
Upsert(c, outcome) ==
    /\ caller[c] = "upsert"
    /\ CallerSteps(c, IF outcome = "ok" THEN "assign_retriever" ELSE "raised")
    /\ inits' = IF outcome = "ok" THEN inits + 1 ELSE inits
    /\ UNCHANGED <<_RETRIEVER, _LLM, _INIT_DONE, gemini_key>>

\* lines 122-131
AssignRetriever(c) ==
    /\ caller[c] = "assign_retriever"
    /\ _RETRIEVER' = c
    /\ CallerSteps(c, "assign_llm")
    /\ UNCHANGED <<_LLM, _INIT_DONE, gemini_key, inits>>

\* lines 49-59: no handle without an API key
_make_llm(key) == IF key THEN "llm" ELSE None

\* line 133
AssignLlm(c) ==
    /\ caller[c] = "assign_llm"
    /\ _LLM' = _make_llm(gemini_key)
    /\ CallerSteps(c, "set_done")
    /\ UNCHANGED <<_RETRIEVER, _INIT_DONE, gemini_key, inits>>

\* line 134
SetDone(c) ==
    /\ caller[c] = "set_done"
    /\ _INIT_DONE' = TRUE
    /\ CallerSteps(c, "retrieve")
    /\ UNCHANGED <<_RETRIEVER, _LLM, gemini_key, inits>>

\* lines 166-181: the query is answered with the retriever
Retrieve(c) ==
    /\ caller[c] = "retrieve"
    /\ CallerSteps(c, "done")
    /\ UNCHANGED <<_RETRIEVER, _LLM, _INIT_DONE, gemini_key, inits>>

\* ------------------- app_with_ai.py / app_fallback_ai.py, /api/chat/context
VARIABLES
    capp,               \* which application serves the request
    search_query,       \* data.get('searchQuery', ''), as a lexeme sequence
    indexed,            \* how many indexed papers match the query
    cpc,                \* position in the handler
    search_results,     \* what search_papers returned, a dict
    context_papers,     \* local `context_papers`
    cresp               \* the response

ctxVars == <<capp, search_query, indexed, cpc, search_results, context_papers, cresp>>

\* dict.get(key, default)
Get(dict, key, default) == IF key \in DOMAIN dict THEN dict[key] ELSE default

\* elasticsearch_service.py lines 189-190: size = 10, from_ = 0
SearchSize == 10

\* elasticsearch_service.py lines 295-327: the dict search_papers returns
search_papers(n, outcome) ==
    IF outcome = "ok"
    THEN [total |-> n, results |-> [i \in 1..Min(n, SearchSize) |-> i], took |-> 1]
    ELSE [total |-> 0, results |-> <<>>, took |-> 0]

\* app_with_ai.py line 170 ([:5]), app_fallback_ai.py line 120 ([:3])
TopPapers(app) == IF app = "with_ai" THEN 5 ELSE 3

\* search_results.get('papers', [])[:n]
ContextFrom(res, app) ==
    SubSeq(Get(res, "papers", <<>>), 1, Min(Len(Get(res, "papers", <<>>)), TopPapers(app)))

NoResults == [total |-> 0, results |-> <<>>, took |-> 0]
NoResp == [status |-> 0, context_papers |-> 0]

\* app_with_ai.py lines 166-170, app_fallback_ai.py lines 115-122
GetPapers(outcome) ==
    /\ cpc = "start"
    /\ IF search_query # <<>>
       THEN \E res \in {search_papers(indexed, outcome)} :
               /\ search_results' = res
               /\ context_papers' = ContextFrom(res, capp)
       ELSE UNCHANGED <<search_results, context_papers>>
    /\ cpc' = "answer"
    /\ UNCHANGED <<capp, search_query, indexed, cresp>>

AnswerOutcomes == {"ok", "non200", "exception"}

\* app_with_ai.py lines 196-228 (the generation call), app_fallback_ai.py
\* lines 124-207 (canned answers, no call)
Answer(outcome) ==
    /\ cpc = "answer"
    /\ cresp' = IF capp = "with_ai" /\ outcome # "ok"
                THEN [status |-> 500, context_papers |-> 0]
                ELSE [status |-> 200, context_papers |-> Len(context_papers)]
    /\ cpc' = "done"
    /\ UNCHANGED <<capp, search_query, indexed, search_results, context_papers>>

extraVars == <<replyVars, initVars, ctxVars>>
auxVars == <<streamVars, listVars, chatVars, rankVars, extraVars>>
vars == <<req, corpus, pc, es_query, total, deduped, seen, calls, ret,
          papers, api_key, rpc, context, sources, rag_ret,
          gemini_client, response, gen, spc, events,
          args, lpc, lres,
          thread_type, ai_reply_fn, messages, ai_calls, last,
          pair, scored,
          rows, room, post,
          _RETRIEVER, _LLM, _INIT_DONE, gemini_key, caller, inits,
          capp, search_query, indexed, cpc, search_results, context_papers, cresp>>

\* ------------------------------------------------------ inputs and specs
SeqsUpTo(S, n) == UNION {[1..k -> S] : k \in 0..n}

Filters(yg, yl, org, mis, env, osdr, hasdoi) ==
    [year_gte |-> yg, year_lte |-> yl, organism |-> org, mission |-> mis,
     environment |-> env, hasOSDR |-> osdr, hasDOI |-> hasdoi]

Request(q, f, size, offset) == [query |-> q, filters |-> f, size |-> size, offset |-> offset]

\* requests of the cascade runs
CascadeRequests ==
    {Request(q, Filters(yg, 0, org, mis, <<>>, osdr, None), size, offset) :
        q \in {<<>>, <<"bone">>, <<"zzz">>},
        yg \in {0, 2020},
        org \in {<<>>, <<"mouse">>},
        mis \in {<<>>, <<"iss">>},
        osdr \in {None, "True"},
        size \in {1, TopK, MaxSize},
        offset \in {0, MaxOffset}}

\* requests of the runs against a deep index: first page, a page
\* of one document and a page larger than the fallback's floor
DeepSize == FallbackMin + 1
DeepRequests ==
    {Request(q, Filters(0, 0, org, <<>>, <<>>, None, None), size, 0) :
        q \in {<<>>, <<"bone">>, <<"zzz">>},
        org \in {<<>>, <<"mouse">>},
        size \in {1, DeepSize}}
DeepPools == {{}, {2, 7}, {1, 2, 7}, DOMAIN DocPool}
DeepCorpora ==
    {P \cup ((Len(DocPool) + 1)..(Len(DocPool) + n)) : P \in DeepPools, n \in 0..MaxArchive}

\* requests of the query-builder runs
BuilderRequests ==
    {Request(q, Filters(yg, yl, org, mis, env, osdr, hasdoi), TopK, 0) :
        q \in SeqsUpTo({"bone", Colon, Blank}, MaxQueryLen),
        yg \in {0, 2020},
        yl \in {0, 2024},
        org \in SeqsUpTo({"mouse", "human"}, MaxVals),
        mis \in {<<>>, <<"iss">>},
        env \in {<<>>, <<"space">>},
        osdr \in {None, "True", "False"},
        hasdoi \in {None, "True", "False"}}

\* an index holds any subset of the pool
Corpora == SUBSET (1..Len(DocPool))

PaperKinds == {Paper("T1", "u1", 2024, 1200, 203),
               Paper("T2", "u2", 2020, 0, 900),
               Paper("", "", 0, 40, 40),
               Paper("", "", 0, 464, 0)}

\* generation responses of the streaming runs
PartTexts == {<<>>, <<"hi">>, <<Blank>>}
CandidateKinds ==
    {Candidate(fr, parts) :
        fr \in 0..5,
        parts \in {<<>>, <<<<>>>>, <<<<Blank>>>>, <<<<"hi">>, <<>>, <<"there">>>>}}
Responses ==
    {GenResponse(t, cs) :
        t \in {Absent} \cup PartTexts,
        cs \in SeqsUpTo(CandidateKinds, MaxCandidates)}

\* query strings of the listing runs; `other` is a parameter list_papers
\* does not know
ListArgs ==
    {[q |-> q, year_gte |-> yg, year_lte |-> yl, organism |-> org,
      hasOSDR |-> osdr, other |-> other] :
        q \in {<<>>, <<"bone">>},
        yg \in {Absent, <<>>, <<"2", "0", "2", "0">>, <<"a", "b">>},
        yl \in {Absent, <<"2", "0", "2", "4">>, <<"2", "0", "x">>},
        org \in {Absent, <<"mouse">>, <<"mouse", Comma, Blank, "human", Comma>>},
        osdr \in {None, "true", "0"},
        other \in {Absent, <<"x">>}}

\* documents of the scoring runs: one topic, titled or only abstracted
RankDocs ==
    {Doc("d", "T", "u", y, FALSE, FALSE, t) :
        y \in (GaussOrigin - YearSpan)..(GaussOrigin + YearSpan),
        t \in {Terms({"bone"}, {}, {}, {}, {}), Terms({}, {"bone"}, {}, {}, {})}}

SearchIdle ==
    /\ req = Request(<<>>, Filters(0, 0, <<>>, <<>>, <<>>, None, None), 0, 0)
    /\ corpus = {}
    /\ pc = "idle"
    /\ es_query = NoQuery
    /\ total = 0 /\ deduped = <<>> /\ seen = {} /\ calls = <<>> /\ ret = NoRet

RagIdle ==
    /\ papers = <<>> /\ api_key = FALSE /\ rpc = "idle"
    /\ context = <<>> /\ sources = <<>> /\ rag_ret = NoRagRet

StreamIdle ==
    /\ gemini_client = FALSE /\ response = GenResponse(Absent, <<>>)
    /\ gen = "none" /\ spc = "idle" /\ events = <<>>

ListIdle ==
    /\ args = [q |-> <<>>, year_gte |-> Absent, year_lte |-> Absent,
               organism |-> Absent, hasOSDR |-> None, other |-> Absent]
    /\ lpc = "idle"
    /\ lres = ListResponse(0, NoCall, "none")

ChatIdle ==
    /\ thread_type = <<>> /\ ai_reply_fn = FALSE /\ messages = <<>>
    /\ ai_calls = 0 /\ last = NoPost

RankIdle == pair = <<>> /\ scored = <<"idle">>

ReplyIdle == rows = <<>> /\ room = <<>> /\ post = <<>>

InitIdle ==
    /\ _RETRIEVER = 0 /\ _LLM = "unset" /\ _INIT_DONE = FALSE /\ gemini_key = FALSE
    /\ caller = <<>> /\ inits = 0

CtxIdle ==
    /\ capp = "" /\ search_query = <<>> /\ indexed = 0 /\ cpc = "idle"
    /\ search_results = NoResults /\ context_papers = <<>> /\ cresp = NoResp

ExtraIdle == ReplyIdle /\ InitIdle /\ CtxIdle

AuxIdle == StreamIdle /\ ListIdle /\ ChatIdle /\ RankIdle /\ ExtraIdle

SearchStart(requests, corpora) ==
    /\ req \in requests
    /\ corpus \in corpora
    /\ pc = "start"
    /\ es_query = NoQuery
    /\ total = 0 /\ deduped = <<>> /\ seen = {} /\ calls = <<>> /\ ret = NoRet

\* search_elasticsearch against an index
Init == SearchStart(CascadeRequests, Corpora) /\ RagIdle /\ AuxIdle
Next ==
    \/ Build /\ UNCHANGED <<ragVars, auxVars>>
    \/ \E o \in Outcomes : Primary(o) /\ UNCHANGED <<ragVars, auxVars>>
    \/ \E o \in Outcomes : Relaxed(o) /\ UNCHANGED <<ragVars, auxVars>>
    \/ \E o \in Outcomes : Fallback(o) /\ UNCHANGED <<ragVars, auxVars>>
Spec == Init /\ [][Next]_vars

\* search_elasticsearch against an index deeper than the fallback's cap
InitDeep == SearchStart(DeepRequests, DeepCorpora) /\ RagIdle /\ AuxIdle
SpecDeep == InitDeep /\ [][Next]_vars

\* the query builder alone, over a wide range of requests
InitBuild == SearchStart(BuilderRequests, {{}}) /\ RagIdle /\ AuxIdle
NextBuild == Build /\ UNCHANGED <<ragVars, auxVars>>
SpecBuild == InitBuild /\ [][NextBuild]_vars

\* ai.answer_with_rag
InitRag ==
    /\ SearchIdle /\ AuxIdle
    /\ papers \in SeqsUpTo(PaperKinds, MaxPapers)
    /\ api_key \in BOOLEAN
    /\ rpc = "start"
    /\ context = <<>> /\ sources = <<>> /\ rag_ret = NoRagRet
NextRag ==
    \/ FormatStep /\ UNCHANGED <<searchVars, auxVars>>
    \/ \E o \in ChatOutcomes : PostChat(o) /\ UNCHANGED <<searchVars, auxVars>>
SpecRag == InitRag /\ [][NextRag]_vars

\* chat_stream
InitStream ==
    /\ SearchIdle /\ RagIdle /\ ListIdle /\ ChatIdle /\ RankIdle /\ ExtraIdle
    /\ gemini_client \in BOOLEAN
    /\ response \in Responses
    /\ gen = "none" /\ spc = "start" /\ events = <<>>
NextStream ==
    \/ StreamUnavailable /\ UNCHANGED <<searchVars, ragVars, listVars, chatVars, rankVars, extraVars>>
    \/ \E o \in GenOutcomes :
          Generate(o) /\ UNCHANGED <<searchVars, ragVars, listVars, chatVars, rankVars, extraVars>>
SpecStream == InitStream /\ [][NextStream]_vars

\* list_papers
InitList ==
    /\ SearchIdle /\ RagIdle /\ StreamIdle /\ ChatIdle /\ RankIdle /\ ExtraIdle
    /\ args \in ListArgs
    /\ lpc = "start"
    /\ lres = ListResponse(0, NoCall, "none")
NextList ==
    \E o \in SearchOutcomes :
        list_papers(o) /\ UNCHANGED <<searchVars, ragVars, streamVars, chatVars, rankVars, extraVars>>
SpecList == InitList /\ [][NextList]_vars

\* the chat module
InitChat ==
    /\ SearchIdle /\ RagIdle /\ StreamIdle /\ ListIdle /\ RankIdle /\ ExtraIdle
    /\ thread_type \in [ThreadIds -> {"dm", "group", "ai"}]
    /\ ai_reply_fn \in BOOLEAN
    /\ messages = <<>> /\ ai_calls = 0 /\ last = NoPost
NextChat ==
    \/ post_message /\ UNCHANGED <<searchVars, ragVars, streamVars, listVars, rankVars, extraVars>>
    \/ on_message_new /\ UNCHANGED <<searchVars, ragVars, streamVars, listVars, rankVars, extraVars>>
SpecChat == InitChat /\ [][NextChat]_vars

\* concurrent posts to one AI thread
BaseIdle == SearchIdle /\ RagIdle /\ StreamIdle /\ ListIdle /\ ChatIdle /\ RankIdle
baseVars == <<searchVars, ragVars, streamVars, listVars, chatVars, rankVars>>

InitReply ==
    /\ BaseIdle /\ InitIdle /\ CtxIdle
    /\ rows = <<>> /\ room = <<>>
    /\ post = [p \in Posters |-> NewPost]
NextReply ==
    \/ \E p \in Posters, o \in SendOutcomes :
          PostMsg(p, o) /\ UNCHANGED <<baseVars, initVars, ctxVars>>
    \/ \E p \in Posters, o \in AiOutcomes :
          AskAi(p, o) /\ UNCHANGED <<baseVars, initVars, ctxVars>>
    \/ \E p \in Posters, o \in SendOutcomes :
          SendReply(p, o) /\ UNCHANGED <<baseVars, initVars, ctxVars>>
    \/ \E p \in Posters, o \in SendOutcomes :
          SendErr(p, o) /\ UNCHANGED <<baseVars, initVars, ctxVars>>
SpecReply == InitReply /\ [][NextReply]_vars

\* concurrent first calls of ai_rag_es.answer_with_rag
InitLazy ==
    /\ BaseIdle /\ ReplyIdle /\ CtxIdle
    /\ _RETRIEVER = 0 /\ _LLM = "unset" /\ _INIT_DONE = FALSE
    /\ gemini_key \in BOOLEAN
    /\ caller = [c \in Callers |-> "call"]
    /\ inits = 0
NextLazy ==
    \/ \E c \in Callers : CheckDone(c) /\ UNCHANGED <<baseVars, replyVars, ctxVars>>
    \/ \E c \in Callers : EnterInit(c) /\ UNCHANGED <<baseVars, replyVars, ctxVars>>
    \/ \E c \in Callers, o \in StepOutcomes :
          LoadDocs(c, o) /\ UNCHANGED <<baseVars, replyVars, ctxVars>>
    \/ \E c \in Callers, o \in StepOutcomes :
          Upsert(c, o) /\ UNCHANGED <<baseVars, replyVars, ctxVars>>
    \/ \E c \in Callers : AssignRetriever(c) /\ UNCHANGED <<baseVars, replyVars, ctxVars>>
    \/ \E c \in Callers : AssignLlm(c) /\ UNCHANGED <<baseVars, replyVars, ctxVars>>
    \/ \E c \in Callers : SetDone(c) /\ UNCHANGED <<baseVars, replyVars, ctxVars>>
    \/ \E c \in Callers : Retrieve(c) /\ UNCHANGED <<baseVars, replyVars, ctxVars>>
SpecLazy == InitLazy /\ [][NextLazy]_vars

\* the context-aware chat endpoints
InitCtx ==
    /\ BaseIdle /\ ReplyIdle /\ InitIdle
    /\ capp \in {"with_ai", "fallback"}
    /\ search_query \in {<<>>, <<"bone">>}
    /\ indexed \in 0..MaxIndexed
    /\ cpc = "start"
    /\ search_results = NoResults /\ context_papers = <<>> /\ cresp = NoResp
NextCtx ==
    \/ \E o \in Outcomes : GetPapers(o) /\ UNCHANGED <<baseVars, replyVars, initVars>>
    \/ \E o \in AnswerOutcomes : Answer(o) /\ UNCHANGED <<baseVars, replyVars, initVars>>
SpecCtx == InitCtx /\ [][NextCtx]_vars

\* the score of two documents under one query
InitRank ==
    /\ SearchIdle /\ RagIdle /\ StreamIdle /\ ListIdle /\ ChatIdle /\ ExtraIdle
    /\ pair \in RankDocs \X RankDocs
    /\ scored = <<>>
NextRank == ScorePair /\ UNCHANGED <<searchVars, ragVars, streamVars, listVars, chatVars, extraVars>>
SpecRank == InitRank /\ [][NextRank]_vars

\* ------------------------------------------------------------- properties
Range(f) == {f[i] : i \in DOMAIN f}

\* the facets the request selects, in the order the code visits them
SelectedFacets(f) == SelectSeq(FacetKeys, LAMBDA k : f[k] # <<>>)

\* text is the values of vals separated by " | "
OrOf(text, vals) ==
    /\ vals # <<>> => Len(text) = 4 * Len(vals) - 3
    /\ \A i \in DOMAIN vals :
          /\ text[4 * i - 3] = vals[i]
          /\ i < Len(vals) =>
                text[4 * i - 2] = Blank /\ text[4 * i - 1] = Bar /\ text[4 * i] = Blank

\* the query holds a token that is not of the form key:value
OrdinaryWord(query) == \E t \in Range(Split(query)) : ~HasColon(t)

\* C1: a request with k selected facets gets exactly k required facet
\* clauses, in facet order; each searches its facet's own field for any of
\* its values (the values joined by the OR sign); no facet clause is merely
\* optional, and the free-text clause, when there is free text, is required
\* along with them.
C1_FacetClauses ==
    pc = "primary" =>
        LET sel == SelectedFacets(req.filters)
            fc == SelectSeq(es_query.must, LAMBDA c : c.type = "simple_query_string")
        IN /\ Len(fc) = Len(sel)
           /\ \A i \in DOMAIN sel :
                 /\ \E fb \in fc[i].fields : fb[1] = sel[i]
                 /\ OrOf(fc[i].text, req.filters[sel[i]])
           /\ \A j \in DOMAIN es_query.should :
                 es_query.should[j].type # "simple_query_string"
           /\ OrdinaryWord(req.query) =>
                 \E j \in DOMAIN es_query.must : es_query.must[j].type = "multi_match"

C1_Witness ==
    /\ pc = "primary"
    /\ Len(SelectedFacets(req.filters)) = 3
    /\ Len(req.filters.organism) = 2
    /\ OrdinaryWord(req.query)
    /\ Len(es_query.must) = 4

\* C2: the required clause list of the primary query is never empty, and for
\* an empty or blank free text with no facet selected it is exactly one
\* match-everything clause.
C2_MustNonEmpty ==
    pc = "primary" =>
        /\ es_query.must # <<>>
        /\ ((\A i \in DOMAIN req.query : req.query[i] = Blank)
              /\ SelectedFacets(req.filters) = <<>>)
           => es_query.must = <<MatchAll>>

C2_Witness ==
    /\ pc = "primary"
    /\ req.query # <<>>
    /\ \A i \in DOMAIN req.query : req.query[i] = Blank
    /\ SelectedFacets(req.filters) = <<>>
    /\ es_query.must = <<MatchAll>>

\* every index call of the run so far was answered with status 200
AllOk == \A i \in DOMAIN calls : calls[i][2] = "ok"

\* number of documents of the index that satisfy the primary query
PrimaryMatches(r, docs) ==
    Cardinality({i \in DOMAIN docs :
        BoolMatches(docs[i], BuildQuery(r.query, r.filters, r.size, r.offset))})

\* C3 as stated: no two returned documents share the pair (title, url).
C3_DistinctTitleUrl ==
    pc = "done" =>
        \A i, j \in DOMAIN ret.results :
            i # j => <<ret.results[i].title, ret.results[i].url>>
                     # <<ret.results[j].title, ret.results[j].url>>

\* C3, amended: no two returned documents share the pair (id, url), whichever
\* stages ran.
C3_DistinctIdUrl ==
    pc = "done" =>
        \A i, j \in DOMAIN ret.results :
            i # j => <<ret.results[i].id, ret.results[i].url>>
                     # <<ret.results[j].id, ret.results[j].url>>

C3_Witness ==
    /\ pc = "done"
    /\ <<"relaxed", "ok">> \in Range(calls)
    /\ Len(ret.results) >= 2
    /\ \E i, j \in corpus :
          /\ i < j
          /\ DocPool[i].id = DocPool[j].id /\ DocPool[i].url = DocPool[j].url
          /\ \E k \in DOMAIN ret.results :
                ret.results[k].id = DocPool[i].id /\ ret.results[k].url = DocPool[i].url

\* C4 as stated: with a non-empty corpus and an index that answers every
\* call, the returned list is never empty.
C4_NeverEmpty ==
    (pc = "done" /\ corpus # {} /\ AllOk) => ret.results # <<>>

\* C4, amended: with a non-empty corpus, a page size of at least 1 and every
\* call answered with status 200, the returned list is empty only when the
\* primary query matches at least max(5, size // 3) documents and the offset
\* is at or beyond the number of its matches.
C4_EmptyOnlyPastLastPage ==
    (pc = "done" /\ corpus # {} /\ AllOk /\ req.size >= 1 /\ ret.results = <<>>)
        => /\ PrimaryMatches(req, Docs(corpus)) >= Max(5, req.size \div 3)
           /\ req.offset >= PrimaryMatches(req, Docs(corpus))

C4_Witness ==
    /\ pc = "done" /\ corpus # {} /\ AllOk
    /\ req.query = <<"zzz">>
    /\ req.offset > 0
    /\ <<"fallback", "ok">> \in Range(calls)
    /\ ret.results # <<>>

\* the returned document satisfies the range and binary filters of f
Satisfies(r, f) ==
    /\ f.year_gte # 0 => (r.year # 0 /\ r.year >= f.year_gte)
    /\ f.year_lte # 0 => (r.year # 0 /\ r.year <= f.year_lte)
    /\ f.hasOSDR = "True" => r.hasOSDR
    /\ f.hasDOI = "True" => r.doi

\* C5 as stated: every returned document satisfies the requested range and
\* binary filters, whichever stage produced it.
C5_FiltersAlways ==
    pc = "done" => \A i \in DOMAIN ret.results : Satisfies(ret.results[i], req.filters)

\* C5, amended: the filters are part of the primary and the relaxed query, so
\* every document returned by a call whose list was not replaced by the
\* universal fallback satisfies all of them.
C5_FiltersUnlessFallback ==
    (pc = "done" /\ <<"fallback", "ok">> \notin Range(calls))
        => \A i \in DOMAIN ret.results : Satisfies(ret.results[i], req.filters)

C5_Witness ==
    /\ pc = "done"
    /\ <<"relaxed", "ok">> \in Range(calls)
    /\ <<"fallback", "ok">> \notin Range(calls)
    /\ req.filters.year_gte # 0 /\ req.filters.hasOSDR = "True"
    /\ ret.results # <<>>
    /\ \E i \in corpus : DocPool[i].year < req.filters.year_gte
    /\ \E i \in corpus : ~DocPool[i].hasOSDR

\* the second facets tried on a single-facet request
SecondFacets == {<<"organism", <<"mouse">>>>, <<"organism", <<"human">>>>,
                 <<"mission", <<"iss">>>>, <<"environment", <<"space">>>>}
WithFacet(r, sf) == [r EXCEPT !.filters[sf[1]] = sf[2]]
TitleUrlKeys(results) == {<<results[i].title, results[i].url>> : i \in DOMAIN results}
IdUrlKeys(results) == {<<results[i].id, results[i].url>> : i \in DOMAIN results}

\* C6 as stated: adding a second facet to a single-facet request never
\* returns a document the single-facet request does not return.
C6_Narrowing ==
    (pc = "done" /\ AllOk /\ Len(SelectedFacets(req.filters)) = 1) =>
        \A sf \in SecondFacets :
            req.filters[sf[1]] = <<>> =>
                TitleUrlKeys(RunOk(WithFacet(req, sf), Docs(corpus)))
                    \subseteq TitleUrlKeys(ret.results)

\* C6, amended: when the two-facet request is answered by its primary stage
\* alone (its primary query matches at least max(5, size // 3) documents) and
\* the single-facet request's primary matches all fit in the returned page
\* (offset 0, no more matches than the page size), every (id, url) returned
\* for the two-facet request is returned for the single-facet request.
C6_NarrowingOnPrimaryPage ==
    (pc = "done" /\ AllOk /\ Len(SelectedFacets(req.filters)) = 1) =>
        \A sf \in SecondFacets :
            (/\ req.filters[sf[1]] = <<>>
             /\ PrimaryMatches(WithFacet(req, sf), Docs(corpus)) >= Max(5, req.size \div 3)
             /\ req.offset = 0
             /\ PrimaryMatches(req, Docs(corpus)) <= req.size)
            => IdUrlKeys(RunOk(WithFacet(req, sf), Docs(corpus)))
                   \subseteq IdUrlKeys(ret.results)

C6_Witness ==
    /\ pc = "done" /\ AllOk /\ Len(SelectedFacets(req.filters)) = 1
    /\ \E sf \in SecondFacets :
          /\ req.filters[sf[1]] = <<>>
          /\ PrimaryMatches(WithFacet(req, sf), Docs(corpus)) >= Max(5, req.size \div 3)
          /\ req.offset = 0
          /\ PrimaryMatches(req, Docs(corpus)) <= req.size
          /\ IdUrlKeys(RunOk(WithFacet(req, sf), Docs(corpus))) # {}
          /\ IdUrlKeys(RunOk(WithFacet(req, sf), Docs(corpus))) # IdUrlKeys(ret.results)

\* C8: after a failed primary call the run still issues the universal
\* fallback call, and an error flag is returned only if that call failed too.
C8_PrimaryFailureFallsBack ==
    (pc = "done" /\ calls # <<>> /\ calls[1][2] # "ok") =>
        \E i \in DOMAIN calls :
            /\ calls[i][1] = "fallback"
            /\ ret.error => calls[i][2] # "ok"

\* C9: a failed index call never escapes search_elasticsearch as an exception.
C9_NoEscape == ret.kind # "raise"

\* the run with every call answered agrees with the pure composition
RunOkAgrees == (pc = "done" /\ AllOk) => ret.results = RunOk(req, Docs(corpus))

\* C7: the citations are numbered 1..N in order, N being the number of
\* context entries; citation i carries the title, url and year of context
\* entry i, which is the whole entry of the i-th retrieved paper; the papers
\* after the N-th appear in neither list, and the first omitted paper is one
\* that did not fit the budget.
C7_CitationAlignment ==
    rpc \in {"chat", "done"} =>
        LET N == Len(context)
        IN /\ Len(sources) = N
           /\ N <= Len(papers)
           /\ \A i \in 1..N :
                 /\ sources[i].idx = i /\ context[i].idx = i
                 /\ sources[i].title = context[i].title
                 /\ sources[i].url = context[i].url
                 /\ sources[i].year = context[i].year
                 /\ context[i].title =
                        (IF papers[i].title = "" THEN "Untitled" ELSE papers[i].title)
                 /\ context[i].url = papers[i].url
                 /\ context[i].year =
                        (IF papers[i].year = 0 THEN "n/a" ELSE ToString(papers[i].year))
                 /\ context[i].snippet =
                        Min(800, IF papers[i].absLen # 0 THEN papers[i].absLen
                                 ELSE papers[i].sumLen)
           /\ N < Len(papers) =>
                 SumLen(context) + EntryLen(N + 1, papers[N + 1]) > 5500

C7_Witness ==
    /\ rpc = "chat"
    /\ Len(sources) > 0
    /\ Len(sources) < Len(papers)

\* C10: without an API key answer_with_rag still returns a non-empty answer
\* together with the citation list.
C10_ExtractiveFallback ==
    (rpc = "done" /\ ~api_key) =>
        /\ rag_ret.kind = "return"
        /\ rag_ret.answer # ""
        /\ rag_ret.sources = sources

\* C11: with a key configured, answer_with_rag ends by returning a non-empty
\* answer, whatever the generation call did (status >= 400, network failure,
\* timeout, malformed reply); it never ends in an exception.
C11_GenerationErrorAnswered ==
    (rpc = "done" /\ api_key) =>
        /\ rag_ret.kind = "return"
        /\ rag_ret.answer # ""

\* the generation call returned a response that holds no text
NoTextReturned ==
    /\ spc = "done" /\ gen = "ok"
    /\ safe_extract_text_from_response(response) = Absent

\* the finish_reason the response signals, 0 when it signals none
SignalledReason ==
    IF response.candidates = <<>> THEN 0 ELSE response.candidates[1].finish_reason

\* C12: when the generation call returns no text, the stream carries no error
\* event and a non-empty reply; a length cutoff (2), a content-safety block
\* (3) and a content-policy block (4) are each answered with their own
\* message, three different messages; the generic apology is sent only when
\* the response signals no reason at all.
C12_RefusalMessages ==
    NoTextReturned =>
        /\ \A i \in DOMAIN events : events[i].event # "error"
        /\ events[Len(events)].event = "done"
        /\ Reply(events) # <<>>
        /\ SignalledReason = 2 =>
              Reply(events) = <<"response", Blank, "cut", Blank, "off", Blank,
                                "length", Blank, "limits">>
        /\ SignalledReason = 3 =>
              Reply(events) = <<"unable", Blank, "content", Blank, "safety", Blank,
                                "guidelines">>
        /\ SignalledReason = 4 =>
              Reply(events) = <<"unable", Blank, "content", Blank, "policy", Blank,
                                "restrictions">>
        /\ Reply(events) = <<"sorry", Blank, "couldn't", Blank, "generate">> =>
              response.candidates = <<>>

C12_Witness ==
    /\ NoTextReturned
    /\ Len(response.candidates) = 2
    /\ SignalledReason = 4
    /\ response.candidates[2].finish_reason = 3
    /\ Len(events) = 5

\* the query string carries a year bound that is not a number, or a
\* parameter the endpoint does not know
Malformed(a) ==
    \/ Given(a.year_gte) /\ ~IsInt(a.year_gte)
    \/ Given(a.year_lte) /\ ~IsInt(a.year_lte)
    \/ a.other # Absent

\* C13: a listing request with a malformed filter is answered with status
\* 200 whenever the search itself succeeds or is not needed.
C13_MalformedIgnored ==
    (lpc = "done" /\ Malformed(args) /\ lres.search \in {"none", "results"}) =>
        lres.status = 200

\* C14: the returned results are in descending score order, equal scores in
\* descending year order.
C14_SortedByScoreThenYear ==
    (pc = "done" /\ ret.kind = "dict") =>
        \A i, j \in DOMAIN ret.results :
            i < j =>
                \/ ret.results[i].score > ret.results[j].score
                \/ /\ ret.results[i].score = ret.results[j].score
                   /\ ret.results[i].year >= ret.results[j].year

\* C15: of two documents with the same text score, the one with the later
\* year has a final score at least as high.
C15_RecencyMonotonic ==
    (Len(scored) = 2
     /\ TextScore(pair[1], RankQuery) = TextScore(pair[2], RankQuery)
     /\ pair[2].year > pair[1].year) =>
        scored[2] >= scored[1]

\* the stored messages that call for a reply: sent in an AI thread by
\* someone other than the assistant
CallingMessages ==
    {i \in DOMAIN messages :
        thread_type[messages[i].thread_id] = "ai" /\ messages[i].sender # "assistant"}

\* C16: a posting that stored its message called the AI reply function
\* exactly when the thread is an AI thread, the sender is not "assistant" and
\* a reply function is configured; a posting that stored nothing called
\* nothing; one posting stores at most its own message and one reply; and the
\* reply function has been called once per stored message that calls for a
\* reply, never for a message of the assistant.
C16_ReplyTrigger ==
    /\ last.stored =>
          (last.ai_called <=> /\ thread_type[last.thread_id] = "ai"
                              /\ last.sender # "assistant"
                              /\ ai_reply_fn)
    /\ ~last.stored => (~last.ai_called /\ last.added = 0)
    /\ last.added <= 2
    /\ ai_calls = IF ai_reply_fn THEN Cardinality(CallingMessages) ELSE 0

C16_Witness ==
    /\ last.stored /\ last.sender = "assistant" /\ ~last.ai_called
    /\ thread_type[last.thread_id] = "ai" /\ ai_reply_fn
    /\ ai_calls = 1
    /\ Len(messages) = 3
    /\ messages[2].sender = "assistant"

\* the deduplicated hits of the primary stage of this run
PrimaryHits == PrimaryOk(Docs(corpus), es_query).deduped

\* the hits the relaxed query returns for this run, in its order
RelaxedHits ==
    LET hits == EsSearch(Docs(corpus), RelaxedQuery(req.query, es_query, req.size)).hits
    IN [i \in DOMAIN hits |-> to_api_result(hits[i])]

Stages == [i \in DOMAIN calls |-> calls[i][1]]

\* C17: after a primary reply, the relaxed call is made exactly when the
\* number of primary matches is below max(5, size // 3); at or above it the
\* run makes no further call and returns the deduplicated primary hits.
C17_TerminalOnTarget ==
    (pc = "done" /\ calls[1] = <<"primary", "ok">>) =>
        LET n == PrimaryMatches(req, Docs(corpus))
        IN /\ ("relaxed" \in Range(Stages)) <=> n < Max(5, req.size \div 3)
           /\ n >= Max(5, req.size \div 3) =>
                 /\ calls = <<<<"primary", "ok">>>>
                 /\ ret.results = PrimaryHits
                 /\ ret.total = n

C17_Witness ==
    /\ pc = "done"
    /\ calls = <<<<"primary", "ok">>>>
    /\ req.size = MaxSize
    /\ PrimaryMatches(req, Docs(corpus)) = Max(5, req.size \div 3)
    /\ ret.results # <<>>

\* first position of r in the list rs
FirstAt(rs, r) == CHOOSE i \in DOMAIN rs : rs[i] = r /\ \A j \in 1..(i - 1) : rs[j] # r

\* the list is the primary hits P followed by those of the relaxed hits R
\* whose key P does not hold, in the order of R
PrimaryThenNewRelaxed(results, P, R) ==
    /\ Len(results) >= Len(P)
    /\ SubSeq(results, 1, Len(P)) = P
    /\ \A k \in (Len(P) + 1)..Len(results) :
          /\ results[k] \in Range(R)
          /\ <<results[k].id, results[k].url>> \notin IdUrlKeys(P)
    /\ \A k, m \in (Len(P) + 1)..Len(results) :
          k < m => FirstAt(R, results[k]) < FirstAt(R, results[m])
    /\ \A i \in DOMAIN R : <<R[i].id, R[i].url>> \in IdUrlKeys(results)

\* C18 as stated: whenever the relaxed stage ran, the returned list is the
\* primary hits in their order followed by the new relaxed hits in theirs.
C18_PrimaryPrefix ==
    (pc = "done" /\ ret.kind = "dict" /\ <<"relaxed", "ok">> \in Range(calls)) =>
        \A P \in {PrimaryHits}, R \in {RelaxedHits} :
            PrimaryThenNewRelaxed(ret.results, P, R)

\* C18, amended: the same, unless the fallback stage then replaced the list
\* (which it does when the merged list is still empty).
C18_PrimaryPrefixUnlessFallback ==
    (pc = "done" /\ ret.kind = "dict" /\ <<"relaxed", "ok">> \in Range(calls)
     /\ <<"fallback", "ok">> \notin Range(calls)) =>
        \A P \in {PrimaryHits}, R \in {RelaxedHits} :
            PrimaryThenNewRelaxed(ret.results, P, R)

C18_Witness ==
    /\ pc = "done"
    /\ calls = <<<<"primary", "ok">>, <<"relaxed", "ok">>>>
    /\ \E P \in {PrimaryHits}, R \in {RelaxedHits} :
          /\ Len(P) >= 1
          /\ Len(ret.results) >= Len(P) + 2
          /\ \E i \in DOMAIN R : <<R[i].id, R[i].url>> \in IdUrlKeys(P)

\* C19: the index calls of a run are an initial part of primary, relaxed,
\* fallback: at most three, in that order, none repeated.
C19_StageOrder ==
    /\ Len(calls) <= 3
    /\ Stages = SubSeq(<<"primary", "relaxed", "fallback">>, 1, Len(calls))

C19_Witness ==
    /\ pc = "done"
    /\ Len(calls) = 3
    /\ calls[2][2] # "ok"
    /\ calls[3][2] # "ok"

\* the indexed document a result was built from
DocOf(r) ==
    CHOOSE i \in corpus :
        DocPool[i].id = r.id /\ DocPool[i].title = r.title /\ DocPool[i].year = r.year

\* the document mentions one of the values in some field
MentionsAny(doc, vals) ==
    \E f \in DOMAIN doc.terms : doc.terms[f] \cap Range(vals) # {}

\* C20: every document the relaxed stage appended mentions, for each facet
\* the request selects, one of that facet's values.
C20_RelaxedKeepsFacets ==
    (pc = "done" /\ calls = <<<<"primary", "ok">>, <<"relaxed", "ok">>>>) =>
        \A k \in (Len(PrimaryHits) + 1)..Len(ret.results) :
            \A key \in Range(SelectedFacets(req.filters)) :
                MentionsAny(DocPool[DocOf(ret.results[k])], req.filters[key])

\* the stage's index call was made and answered with hits
Answered(stage) == \E i \in DOMAIN calls : calls[i] = <<stage, "ok">>

YearDescending(results) ==
    \A i \in 1..(Len(results) - 1) : results[i].year >= results[i + 1].year

\* C21: the fallback call is made only while the accumulated list is empty;
\* once it has answered, the response holds at most max(30, size) documents,
\* newest first.
C21_FallbackOnlyWhenEmpty ==
    /\ pc = "fallback" => deduped = <<>>
    /\ (pc = "done" /\ ret.kind = "dict" /\ Answered("fallback")) =>
          /\ Len(ret.results) <= Max(30, req.size)
          /\ YearDescending(ret.results)

C21_Witness ==
    /\ pc = "done" /\ ret.kind = "dict" /\ Answered("fallback")
    /\ Cardinality(corpus) > Max(30, req.size) + 1
    /\ Len(ret.results) >= 30
    /\ ret.results[1].year > ret.results[Len(ret.results)].year

\* C24: the response never holds more than `size` documents.
C24_AtMostPageSize ==
    (pc = "done" /\ ret.kind = "dict") => Len(ret.results) <= req.size

\* C24, as the code has it: at most `size` documents when the primary stage
\* alone answered, at most twice `size` after a relaxed merge, and at most
\* max(30, size) when the fallback answered.
C24_AtMostPerStage ==
    (pc = "done" /\ ret.kind = "dict") =>
        Len(ret.results) <=
            (IF Answered("fallback") THEN Max(30, req.size)
             ELSE IF Answered("relaxed") THEN 2 * req.size
             ELSE req.size)

C24_Witness ==
    /\ pc = "done" /\ ret.kind = "dict"
    /\ Answered("relaxed") /\ ~Answered("fallback")
    /\ Len(ret.results) = 2 * req.size

\* C22: the context block handed to the generation call is at most
\* max_chars characters long, separators included.
C22_ContextWithinBudget ==
    rpc # "start" => ContextLen(context) <= MaxChars

\* C23: at most K = 6 documents are cited.
C23_AtMostTopK ==
    rpc # "start" => Len(sources) <= TopK

\* C25: a binary flag requested false adds no filter clause for that flag.
C25_BinaryOnlyWhenTrue ==
    pc # "start" =>
        /\ req.filters.hasOSDR = "False" =>
              \A i \in DOMAIN es_query.filter : es_query.filter[i].type # "term_hasOSDR"
        /\ req.filters.hasDOI = "False" =>
              \A i \in DOMAIN es_query.filter : es_query.filter[i].type # "exists_doi"

\* the assistant rows a request stored, and the assistant events it sent
AssistantRowsBy(p) ==
    {i \in DOMAIN rows : rows[i].sender = "assistant" /\ rows[i].by = p}
AssistantEventsBy(p) ==
    {i \in DOMAIN room : room[i].sender = "assistant" /\ room[i].by = p}

\* C26: a request whose reply function raised (nothing else failing) has
\* stored and sent exactly one assistant message, the failure notice, after
\* the poster's own message, and is answered 201.
C26_FailureNotice ==
    \A p \in Posters :
        (post[p].pc = "done" /\ post[p].raised = {"ai"}) =>
            /\ post[p].status = 201
            /\ \E i \in DOMAIN rows :
                  /\ AssistantRowsBy(p) = {i}
                  /\ rows[i] = ErrRow(p)
                  /\ \E u \in 1..(i - 1) : rows[u] = UserRow(p)
            /\ \E j \in DOMAIN room :
                  /\ AssistantEventsBy(p) = {j}
                  /\ room[j] = ErrRow(p)
                  /\ \E u \in 1..(j - 1) : room[u] = UserRow(p)

C26_Witness ==
    /\ \A p \in Posters : post[p].pc = "done"
    /\ post[1].raised = {"ai"}
    /\ rows[1] = UserRow(1) /\ rows[2] = UserRow(2)
    /\ rows[Len(rows)] = ErrRow(1)

\* C27: no request stores more than one assistant message.
C27_AtMostOneAssistantRow ==
    \A p \in Posters : Cardinality(AssistantRowsBy(p)) <= 1

\* C28: every stored answer answers the message of the request that stored it.
C28_ReplyToOwnMessage ==
    \A i \in DOMAIN rows :
        rows[i].content[1] = "answer" => rows[i].content[2] = rows[i].by

\* C29: the index is written by at most one run of init_rag, and the flag is
\* set only once the retriever and the LLM handle are assigned.
C29_InitOnce ==
    /\ inits <= 1
    /\ _INIT_DONE => (_RETRIEVER # 0 /\ _LLM # "unset")

\* C30: an answered request whose search returned at least one paper reports
\* at least one context paper.
C30_ContextPapersReported ==
    (cpc = "done" /\ cresp.status = 200 /\ search_results.results # <<>>) =>
        cresp.context_papers >= 1

====
